---- MODULE Spec2Model ----
(***************************************************************************)
(* Model of the gateway handlers of the shoppingAI frontend:               *)
(*   - the stream relay   (pages/api/generate-content-stream.js, handler)  *)
(*   - the search resolver (pages/api/perplexity-search.js, handler)       *)
(* Text is modelled as a sequence of symbols.  The symbols of the wire     *)
(* framing ("d","a","t","a",":"," ","\n") are single characters; a JSON    *)
(* payload is a short sequence of symbols whose first symbol stands for    *)
(* the key the object carries ("C" chunk, "F" finished, "E" error) and     *)
(* anything else is text that JSON.parse rejects.                          *)
(***************************************************************************)
EXTENDS Integers, Sequences, FiniteSets, TLC

\* ---------------------------------------------------------------- bounds
MaxFrames == 2      \* blocks the upstream generation endpoint sends
MaxChunks == 2      \* reads the upstream body is split into

\* ------------------------------------------------------------- constants
Missing == "<undefined>"        \* a field absent from req.body / process.env
NL == "\n"
SP == " "
DataPrefix == <<"d", "a", "t", "a", ":", SP>>
Null == [kind |-> "null"]

\* --------------------------------------------------------- text helpers
\* JavaScript truthiness of a string-or-undefined value: !v
Falsy(v) == v \in {Missing, ""}

RECURSIVE Flatten(_)
Flatten(ss) == IF ss = <<>> THEN <<>> ELSE Head(ss) \o Flatten(Tail(ss))

\* String.prototype.split('\n')
RECURSIVE SplitNLFrom(_, _)
SplitNLFrom(s, cur) ==
    IF s = <<>> THEN <<cur>>
    ELSE IF Head(s) = NL THEN <<cur>> \o SplitNLFrom(Tail(s), <<>>)
    ELSE SplitNLFrom(Tail(s), Append(cur, Head(s)))

SplitNL(s) == SplitNLFrom(s, <<>>)

IsSpace(c) == c \in {SP, NL}

\* String.prototype.trim()
RECURSIVE TrimLeft(_)
TrimLeft(s) == IF s # <<>> /\ IsSpace(Head(s)) THEN TrimLeft(Tail(s)) ELSE s

RECURSIVE TrimRight(_)
TrimRight(s) ==
    IF s # <<>> /\ IsSpace(s[Len(s)]) THEN TrimRight(SubSeq(s, 1, Len(s) - 1)) ELSE s

Trim(s) == TrimRight(TrimLeft(s))

\* String.prototype.startsWith(p)
StartsWith(s, p) == Len(s) >= Len(p) /\ SubSeq(s, 1, Len(p)) = p

\* String.prototype.slice(n)
Slice(s, n) == SubSeq(s, n + 1, Len(s))

\* ------------------------------------------------------------ JSON model
\* JSON.stringify({ error: msg }), JSON.stringify({ finished: true })
ErrorJson(msg) == <<"E", msg>>
FinishedJson == <<"F">>

\* What a consumer sees after JSON.parse of a payload: data.error,
\* data.finished, otherwise a chunk; text that does not parse is "malformed".
FrameKind(payload) ==
    IF payload = <<>> THEN "malformed"
    ELSE CASE Head(payload) = "E" -> "error"
           [] Head(payload) = "F" -> "finished"
           [] Head(payload) = "C" -> "data"
           [] OTHER -> "malformed"

\* The wire form of one block: `data: ${payload}\n\n`
Encode(payload) == DataPrefix \o payload \o <<NL, NL>>

\* ---------------------------------------------------------- environment
Methods == {"POST", "GET"}
FieldValues == {Missing, "", "v"}

\* Blocks the generation endpoint can send: data blocks carrying a chunk, a
\* finished marker with image prompts, an error, text that is not JSON; and
\* an SSE comment block that carries no data.
UpstreamPayloads == { <<"C", "a">>, <<"F", "p">>, <<"E", "m">>, <<"x">> }
CommentBlock == <<":", NL, NL>>
UpstreamBlocks == { Encode(p) : p \in UpstreamPayloads } \cup {CommentBlock}

RECURSIVE SeqsUpTo(_, _)
SeqsUpTo(S, n) ==
    IF n = 0 THEN {<<>>}
    ELSE LET shorter == SeqsUpTo(S, n - 1)
         IN  shorter \cup { Append(q, x) : q \in shorter, x \in S }

UpstreamStreams == SeqsUpTo(UpstreamBlocks, MaxFrames)

\* Response statuses of the generation endpoint; 204 is ok with a null body.
UpstreamStatuses == {200, 204, 500}
IsOk(status) == status >= 200 /\ status <= 299

\* ------------------------------------------------------------------ state
VARIABLES
    r_pc,        \* relay handler position: idle, fetch, text, read, done
    r_req,       \* the request: method, topic, audience
    r_status,    \* status of the relay's response (0: not set explicitly)
    r_sse,       \* the three event-stream headers have been set
    r_json,      \* body sent with res.json (Null when none)
    r_out,       \* blocks written with res.write, in order
    r_ends,      \* number of res.end() calls
    r_fetches,   \* number of requests made to the generation endpoint
    r_upStatus,  \* status the generation endpoint answered with (0: none)
    r_sent,      \* blocks the generation endpoint sends in this session
    r_bytes,     \* upstream body bytes not yet delivered
    r_read,      \* chunks returned by reader.read() so far
    r_reads,     \* number of reader.read() calls made
    r_path,      \* the branch on which the handler finished
    r_clientGone,\* the client has closed its connection
    r_stalled    \* the upstream keeps its connection open and sends nothing

relayEnv == <<r_clientGone, r_stalled>>

relayVars == <<r_pc, r_req, r_status, r_sse, r_json, r_out, r_ends, r_fetches,
               r_upStatus, r_sent, r_bytes, r_read, r_reads, r_path, relayEnv>>

VARIABLES
    s_pc,        \* search handler position: idle, tool, prompt, done
    s_req,       \* the request: method, query
    s_env,       \* process.env.PERPLEXITY_MCP_URL
    s_urls,      \* urlsToTry
    s_i,         \* position of the for loop in urlsToTry (0: not started)
    s_attempts,  \* every fetch made, in order, with how it settled
    s_lastError, \* message of lastError, NoError until assigned
    s_resp,      \* the response sent (Null when none)
    s_path       \* the branch on which the handler finished

searchVars == <<s_pc, s_req, s_env, s_urls, s_i, s_attempts, s_lastError,
                s_resp, s_path>>

VARIABLES
    a_pc,        \* asset proxy position: idle, fetch, body, done
    a_req,       \* the request: method, whether imagePath is given, imagePath
    a_now,       \* Date.now() when the cache buster was built
    a_fetch,     \* the upstream request made (Null when none): url, method
    a_up,        \* the upstream response (Null when none): status, contentType
    a_headers,   \* headers set with res.setHeader
    a_resp,      \* the response sent (Null when none)
    a_path       \* the branch on which the handler finished

proxyVars == <<a_pc, a_req, a_now, a_fetch, a_up, a_headers, a_resp, a_path>>

VARIABLES
    g_pc,        \* image handler position: idle, fetch, text, json, done
    g_req,       \* the request: method, prompt, timestamp
    g_now,       \* the last value Date.now() returned (0: not read yet)
    g_fetch,     \* the backend request made (Null when none)
    g_up,        \* status of the backend response (0 when none)
    g_resp,      \* the response sent (Null when none)
    g_path,      \* the branch on which the handler finished
    g_calls,     \* calls started so far
    g_last       \* url and reference of the latest successful call

imageVars == <<g_pc, g_req, g_now, g_fetch, g_up, g_resp, g_path, g_calls,
               g_last>>

VARIABLES
    c_loading,   \* StreamingContentGenerator state: loading
    c_streaming, \* state: streaming
    c_content,   \* state: content, as the chunks appended, each with its request
    c_prompts,   \* state: imagePrompts
    c_error,     \* state: error (empty: null)
    c_loops,     \* per handleSubmit call: position, response bytes, buffer
    c_n          \* number of handleSubmit calls so far

clientVars == <<c_loading, c_streaming, c_content, c_prompts, c_error, c_loops, c_n>>

vars == <<relayVars, searchVars, proxyVars, imageVars, clientVars>>

\* ------------------------------------------------------------ stream relay
NoReq == [method |-> Missing, topic |-> Missing, audience |-> Missing]

RelayInit ==
    /\ r_pc = "idle" /\ r_req = NoReq /\ r_status = 0 /\ r_sse = FALSE
    /\ r_json = Null /\ r_out = <<>> /\ r_ends = 0 /\ r_fetches = 0
    /\ r_upStatus = 0 /\ r_sent = <<>> /\ r_bytes = <<>> /\ r_read = <<>>
    /\ r_reads = 0 /\ r_path = "none"
    /\ r_clientGone = FALSE /\ r_stalled = FALSE

\* res.write(`data: ${payload}\n\n`); a block records who produced it.
Block(origin, payload) == [origin |-> origin, payload |-> payload]

\* a validation that forgets the audience
InvalidStreamInput_m(topic, audience) == Falsy(topic)

\* if (!topic || !audience)
InvalidStreamInput(topic, audience) == Falsy(topic) \/ Falsy(audience)

\* a loop that rewrites every non-blank line, whatever it begins with
ForwardLines_m(lines) ==
    LET kept == SelectSeq(lines, LAMBDA l : Trim(l) # <<>>)
    IN  [i \in 1..Len(kept) |-> Block("upstream", Slice(kept[i], 6))]

\* lines = chunk.split('\n').filter(line => line.trim() !== '');
\* for each line: if (line.startsWith('data: ')) res.write(`data: ${line.slice(6)}\n\n`)
RECURSIVE ForwardLines(_)
ForwardLines(lines) ==
    IF lines = <<>> THEN <<>>
    ELSE LET line == Head(lines)
         IN  (IF Trim(line) # <<>> /\ StartsWith(line, DataPrefix)
              THEN <<Block("upstream", Slice(line, 6))>>
              ELSE <<>>) \o ForwardLines(Tail(lines))

ForwardChunk(chunk) == ForwardLines(SplitNL(chunk))

\* `API error: ${response.status}`
ApiErrorMsg(status) == "API error: " \o ToString(status)

\* res.write(...error...); res.end(); on the given branch
RelayFail(msg, path) ==
    /\ r_out' = Append(r_out, Block("relay", ErrorJson(msg)))
    /\ r_ends' = r_ends + 1
    /\ r_pc' = "done"
    /\ r_path' = path

\* handler, from entry to the first await (lines 7-40)
RelayRequest(method, topic, audience) ==
    /\ r_pc = "idle"
    /\ UNCHANGED <<searchVars, proxyVars, imageVars, clientVars, relayEnv>>
    /\ r_req' = [method |-> method, topic |-> topic, audience |-> audience]
    /\ IF method # "POST"
       THEN /\ r_status' = 405
            /\ r_json' = [kind |-> "json", error |-> "Method not allowed"]
            /\ r_ends' = r_ends + 1
            /\ r_pc' = "done"
            /\ r_path' = "method"
            /\ UNCHANGED <<r_sse, r_out, r_fetches>>
       ELSE /\ r_sse' = TRUE
            /\ UNCHANGED <<r_status, r_json>>
            /\ IF InvalidStreamInput(topic, audience)
               THEN /\ RelayFail("Missing required fields", "invalid")
                    /\ UNCHANGED r_fetches
               ELSE /\ r_fetches' = r_fetches + 1
                    /\ r_pc' = "fetch"
                    /\ UNCHANGED <<r_out, r_ends, r_path>>
    /\ UNCHANGED <<r_upStatus, r_sent, r_bytes, r_read, r_reads>>

\* await fetch(apiUrl, ...) rejects: outer catch (lines 83-87)
RelayFetchFails ==
    /\ r_pc = "fetch"
    /\ ~r_stalled
    /\ UNCHANGED <<searchVars, proxyVars, imageVars, clientVars, relayEnv>>
    /\ RelayFail("Failed to connect to backend", "connect")
    /\ UNCHANGED <<r_req, r_status, r_sse, r_json, r_fetches, r_upStatus,
                   r_sent, r_bytes, r_read, r_reads>>

\* await fetch(apiUrl, ...) resolves with a response (lines 42-52)
RelayFetchResponds(status, stream) ==
    /\ r_pc = "fetch"
    /\ ~r_stalled
    /\ UNCHANGED <<searchVars, proxyVars, imageVars, clientVars, relayEnv>>
    /\ r_upStatus' = status
    /\ IF ~IsOk(status)
       THEN \* await response.text()
            /\ r_pc' = "text"
            /\ UNCHANGED <<r_out, r_ends, r_path, r_sent, r_bytes>>
       ELSE IF status = 204
       THEN \* response.body is null: getReader() throws into the outer catch
            /\ RelayFail("Failed to connect to backend", "nobody")
            /\ UNCHANGED <<r_sent, r_bytes>>
       ELSE /\ r_pc' = "read"
            /\ r_sent' = stream
            /\ r_bytes' = Flatten(stream)
            /\ UNCHANGED <<r_out, r_ends, r_path>>
    /\ UNCHANGED <<r_req, r_status, r_sse, r_json, r_fetches, r_read, r_reads>>

\* await response.text() settles (lines 43-47, or the outer catch)
RelayTextSettles(readOk) ==
    /\ r_pc = "text"
    /\ ~r_stalled
    /\ UNCHANGED <<searchVars, proxyVars, imageVars, clientVars, relayEnv>>
    /\ IF readOk
       THEN RelayFail(ApiErrorMsg(r_upStatus), "status")
       ELSE RelayFail("Failed to connect to backend", "text")
    /\ UNCHANGED <<r_req, r_status, r_sse, r_json, r_fetches, r_upStatus,
                   r_sent, r_bytes, r_read, r_reads>>

\* reader.read() resolves with the next n bytes (lines 56, 65-76)
RelayReadChunk(n) ==
    /\ r_pc = "read"
    /\ ~r_stalled
    /\ UNCHANGED <<searchVars, proxyVars, imageVars, clientVars, relayEnv>>
    /\ n \in 1..Len(r_bytes)
    /\ Len(r_read) < MaxChunks - 1 \/ n = Len(r_bytes)
    /\ LET chunk == SubSeq(r_bytes, 1, n)
       IN  /\ r_out' = r_out \o ForwardChunk(chunk)
           /\ r_read' = Append(r_read, chunk)
    /\ r_bytes' = SubSeq(r_bytes, n + 1, Len(r_bytes))
    /\ r_reads' = r_reads + 1
    /\ UNCHANGED <<r_pc, r_req, r_status, r_sse, r_json, r_ends, r_fetches,
                   r_upStatus, r_sent, r_path>>

\* a done branch without its `break`: the loop goes on to the next read
RelayReadDone_m ==
    /\ r_pc = "read"
    /\ ~r_stalled
    /\ UNCHANGED <<searchVars, proxyVars, imageVars, clientVars, relayEnv>>
    /\ r_bytes = <<>>
    /\ r_out' = Append(r_out, Block("relay", FinishedJson))
    /\ r_ends' = r_ends + 1
    /\ r_reads' = r_reads + 1
    /\ r_reads < MaxChunks + 2
    /\ UNCHANGED <<r_pc, r_path, r_req, r_status, r_sse, r_json, r_fetches,
                   r_upStatus, r_sent, r_bytes, r_read>>

\* reader.read() resolves with done (lines 58-63)
RelayReadDone ==
    /\ r_pc = "read"
    /\ ~r_stalled
    /\ UNCHANGED <<searchVars, proxyVars, imageVars, clientVars, relayEnv>>
    /\ r_bytes = <<>>
    /\ r_out' = Append(r_out, Block("relay", FinishedJson))
    /\ r_ends' = r_ends + 1
    /\ r_pc' = "done"
    /\ r_path' = "finished"
    /\ r_reads' = r_reads + 1
    /\ UNCHANGED <<r_req, r_status, r_sse, r_json, r_fetches, r_upStatus,
                   r_sent, r_bytes, r_read>>

\* a read loop without its own try/catch: the rejection reaches the outer catch
RelayReadFails_m ==
    /\ r_pc = "read"
    /\ ~r_stalled
    /\ UNCHANGED <<searchVars, proxyVars, imageVars, clientVars, relayEnv>>
    /\ RelayFail("Failed to connect to backend", "read")
    /\ r_reads' = r_reads + 1
    /\ UNCHANGED <<r_req, r_status, r_sse, r_json, r_fetches, r_upStatus,
                   r_sent, r_bytes, r_read>>

\* reader.read() rejects: inner catch (lines 78-82)
RelayReadFails ==
    /\ r_pc = "read"
    /\ ~r_stalled
    /\ UNCHANGED <<searchVars, proxyVars, imageVars, clientVars, relayEnv>>
    /\ RelayFail("Stream processing error", "read")
    /\ r_reads' = r_reads + 1
    /\ UNCHANGED <<r_req, r_status, r_sse, r_json, r_fetches, r_upStatus,
                   r_sent, r_bytes, r_read>>

\* The client closes its connection.  The handler registers no listener
\* for it (no req.on('close'), no res.on('close')), so nothing else changes.
RelayClientDisconnects ==
    /\ r_pc # "idle"
    /\ ~r_clientGone
    /\ r_clientGone' = TRUE
    /\ UNCHANGED <<searchVars, proxyVars, imageVars, clientVars, r_pc, r_req, r_status, r_sse, r_json, r_out,
                   r_ends, r_fetches, r_upStatus, r_sent, r_bytes, r_read,
                   r_reads, r_path, r_stalled>>

\* The upstream stops answering without closing: the pending await (fetch
\* at line 33, response.text() at 43, reader.read() at 56) has no timeout or
\* abort signal and does not settle.
RelayUpstreamStalls ==
    /\ r_pc \in {"fetch", "text", "read"}
    /\ ~r_stalled
    /\ r_stalled' = TRUE
    /\ UNCHANGED <<searchVars, proxyVars, imageVars, clientVars, r_pc, r_req, r_status, r_sse, r_json, r_out,
                   r_ends, r_fetches, r_upStatus, r_sent, r_bytes, r_read,
                   r_reads, r_path, r_clientGone>>

\* The steps the handler itself takes when an await settles.
RelayHandlerStep ==
    \/ RelayFetchFails
    \/ \E st \in UpstreamStatuses, s \in UpstreamStreams : RelayFetchResponds(st, s)
    \/ \E ok \in BOOLEAN : RelayTextSettles(ok)
    \/ \E n \in 1..Len(r_bytes) : RelayReadChunk(n)
    \/ RelayReadDone
    \/ RelayReadFails

RelayNext ==
    \/ \E m \in Methods, t \in FieldValues, a \in FieldValues : RelayRequest(m, t, a)
    \/ RelayFetchFails
    \/ \E st \in UpstreamStatuses, s \in UpstreamStreams : RelayFetchResponds(st, s)
    \/ \E ok \in BOOLEAN : RelayTextSettles(ok)
    \/ \E n \in 1..Len(r_bytes) : RelayReadChunk(n)
    \/ RelayReadDone
    \/ RelayReadFails
    \/ RelayClientDisconnects
    \/ RelayUpstreamStalls

\* ---------------------------------------------------------- search resolver
BuiltinUrls == <<"http://shopai-perplexity:3500", "http://perplexity:3500",
                 "http://localhost:3500">>

\* Values of PERPLEXITY_MCP_URL: unset, empty, an address of its own, and
\* the one docker-compose.yml ships (equal to the first built-in address).
EnvUrls == {Missing, "", "http://mcp:3500", "http://shopai-perplexity:3500"}

QueryValues == {Missing, "", "q"}

\* [mcpUrlFromEnv, ...].filter(Boolean)
UrlsToTry(env) == (IF Falsy(env) THEN <<>> ELSE <<env>>) \o BuiltinUrls

VariantPath(variant) == IF variant = "tool" THEN "/api/tool" ELSE "/api/prompt"

\* How a fetch settles.  A success status comes with a body: a JSON payload
\* or text response.json() rejects (the empty body among them).
Payloads == {"answer-1", "answer-2"}
EmptyBody == ""
Pending == [kind |-> "pending", status |-> 0, body |-> EmptyBody]
Refused == [kind |-> "transport", status |-> 0, body |-> EmptyBody]
TimedOut == [kind |-> "timeout", status |-> 0, body |-> EmptyBody]
Hung == [kind |-> "hung", status |-> 0, body |-> EmptyBody]
Answered(status, body) == [kind |-> "status", status |-> status, body |-> body]
Settlements ==
    {Refused, TimedOut, Answered(500, EmptyBody), Answered(200, EmptyBody)}
        \cup { Answered(200, p) : p \in Payloads }

\* response.ok, and whether response.json() resolves
OkStatus(o) == o.kind = "status" /\ IsOk(o.status)
JsonParses(body) == body \in Payloads

\* The attempt produced the handler's answer (lines 52-55, 79-82).
Succeeds(o) == OkStatus(o) /\ JsonParses(o.body)

\* message of the error an unsuccessful attempt logs (tool, lines 57, 61)
\* or leaves in urlError (prompt, lines 84, 87)
ErrMessage(a) ==
    LET target == a.url \o VariantPath(a.variant)
    IN  CASE a.result.kind = "transport" ->
                 "request to " \o target \o " failed, reason: ECONNREFUSED"
          [] a.result.kind = "timeout" -> "network timeout at: " \o target
          [] a.result.kind = "status" /\ ~IsOk(a.result.status) ->
                 (IF a.variant = "prompt"
                  THEN "Prompt endpoint responded with status: "
                  ELSE "Tool endpoint error with " \o a.url \o ": ")
                     \o ToString(a.result.status)
          [] OTHER -> "invalid json response body at " \o target

\* an assignment that keeps the first error instead of the last
NoError == "<null>"
AssignLastError_m(old, new) == IF old = NoError THEN new ELSE old

\* let lastError = null (line 31); lastError = urlError (line 88)
AssignLastError(old, new) == new

Resp(status, error, mock, answer, data) ==
    [kind |-> "resp", status |-> status, error |-> error, mock |-> mock,
     answer |-> answer, data |-> data]

\* the catch-all response of lines 99-119, for err.message = msg
Troubleshooting(msg) ==
    "# Connection Error ... Error: " \o msg \o " ## Troubleshooting Steps: ..."
FailureStatus == 500
MockResponse(msg) ==
    Resp(FailureStatus, "Failed to search with Perplexity: " \o msg, TRUE,
         Troubleshooting(msg), Missing)

ExhaustedMessage(last) == "All connection attempts failed. Last error: " \o last

\* a validation that lets the empty string through
InvalidQuery_m(query) == query = Missing

\* if (!query)
InvalidQuery(query) == Falsy(query)

SearchInit ==
    /\ s_pc = "idle" /\ s_req = [method |-> Missing, query |-> Missing]
    /\ s_env = Missing /\ s_urls = <<>> /\ s_i = 0 /\ s_attempts = <<>>
    /\ s_lastError = NoError /\ s_resp = Null /\ s_path = "none"

\* fetch(url, { ..., timeout: 15000 }): the deadline the fetch is under.
\* The frontend depends on node-fetch ^3.3.2, whose fetch reads no `timeout`
\* option (version 3 dropped it in favour of `signal`), so there is none.
AttemptTimeout == 15000
NoDeadline == 0
FetchDeadline(timeoutOption) == NoDeadline

Attempt(url, variant) ==
    [url |-> url, variant |-> variant, result |-> Pending,
     deadline |-> FetchDeadline(AttemptTimeout)]
Settle(attempts, o) == [attempts EXCEPT ![Len(attempts)].result = o]

\* handler, from entry to the first fetch (lines 3-50)
SearchRequest(method, query, env) ==
    /\ s_pc = "idle"
    /\ UNCHANGED <<relayVars, proxyVars, imageVars, clientVars>>
    /\ s_req' = [method |-> method, query |-> query]
    /\ s_env' = env
    /\ IF method # "POST"
       THEN /\ s_resp' = Resp(405, "Method not allowed", Missing, Missing, Missing)
            /\ s_pc' = "done" /\ s_path' = "method"
            /\ UNCHANGED <<s_urls, s_i, s_attempts>>
       ELSE IF InvalidQuery(query)
       THEN /\ s_resp' = Resp(400, "Missing search query", Missing, Missing, Missing)
            /\ s_pc' = "done" /\ s_path' = "invalid"
            /\ UNCHANGED <<s_urls, s_i, s_attempts>>
       ELSE /\ s_urls' = UrlsToTry(env)
            /\ s_i' = 1
            /\ s_attempts' = <<Attempt(UrlsToTry(env)[1], "tool")>>
            /\ s_pc' = "tool"
            /\ UNCHANGED <<s_resp, s_path>>
    /\ UNCHANGED s_lastError

\* The address accepts the request and never answers: with no deadline on
\* the fetch, the await of line 40 or 67 never settles.
SearchAttemptHangs ==
    /\ s_pc \in {"tool", "prompt"}
    /\ UNCHANGED <<relayVars, proxyVars, imageVars, clientVars>>
    /\ s_attempts[Len(s_attempts)].result = Pending
    /\ s_attempts[Len(s_attempts)].deadline = NoDeadline
    /\ s_attempts' = Settle(s_attempts, Hung)
    /\ UNCHANGED <<s_pc, s_req, s_env, s_urls, s_i, s_lastError, s_resp, s_path>>

\* the tool fetch (and response.json()) settles (lines 40-63, 66-77)
SearchToolSettles(o) ==
    /\ s_pc = "tool"
    /\ UNCHANGED <<relayVars, proxyVars, imageVars, clientVars>>
    /\ s_attempts[Len(s_attempts)].result = Pending
    /\ IF Succeeds(o)
       THEN /\ s_attempts' = Settle(s_attempts, o)
            /\ s_resp' = Resp(200, Missing, Missing, Missing, o.body)
            /\ s_pc' = "done" /\ s_path' = "tool"
       ELSE /\ s_attempts' = Append(Settle(s_attempts, o), Attempt(s_urls[s_i], "prompt"))
            /\ s_pc' = "prompt"
            /\ UNCHANGED <<s_resp, s_path>>
    /\ UNCHANGED <<s_req, s_env, s_urls, s_i, s_lastError>>

\* the prompt fetch (and response.json()) settles (lines 67-119)
SearchPromptSettles(o) ==
    /\ s_pc = "prompt"
    /\ UNCHANGED <<relayVars, proxyVars, imageVars, clientVars>>
    /\ s_attempts[Len(s_attempts)].result = Pending
    /\ IF Succeeds(o)
       THEN /\ s_attempts' = Settle(s_attempts, o)
            /\ s_resp' = Resp(200, Missing, Missing, Missing, o.body)
            /\ s_pc' = "done" /\ s_path' = "prompt"
            /\ UNCHANGED <<s_i, s_lastError>>
       ELSE LET settled == Settle(s_attempts, o)
                msg == ErrMessage(settled[Len(settled)])
            IN  /\ s_lastError' = AssignLastError(s_lastError, msg)
                /\ IF s_i < Len(s_urls)
                   THEN /\ s_i' = s_i + 1
                        /\ s_attempts' = Append(settled, Attempt(s_urls[s_i + 1], "tool"))
                        /\ s_pc' = "tool"
                        /\ UNCHANGED <<s_resp, s_path>>
                   ELSE /\ s_attempts' = settled
                        /\ s_resp' = MockResponse(ExhaustedMessage(s_lastError'))
                        /\ s_pc' = "done" /\ s_path' = "exhausted"
                        /\ UNCHANGED s_i
    /\ UNCHANGED <<s_req, s_env, s_urls>>

SearchNext ==
    \/ \E m \in Methods, q \in QueryValues, e \in EnvUrls : SearchRequest(m, q, e)
    \/ \E o \in Settlements : SearchToolSettles(o)
    \/ \E o \in Settlements : SearchPromptSettles(o)
    \/ SearchAttemptHangs

\* -------------------------------------------------------------- asset proxy
MaxPathLen == 3     \* length of the imagePath query parameter
MaxClock == 2       \* values Date.now() takes

PathChars == {"/", "a", "?"}
ImagePaths == SeqsUpTo(PathChars, MaxPathLen)
ProxyMethods == {"GET", "HEAD", "POST"}
Clock == 1..MaxClock

\* process.env.BACKEND_API_URL || 'http://backend:8000'
BackendBaseUrl == "http://backend:8000"

\* a path that is passed on as it came
BeforeQuery_m(path) == path

\* imagePath.split('?')[0]
RECURSIVE BeforeQuery(_)
BeforeQuery(path) ==
    IF path = <<>> \/ Head(path) = "?" THEN <<>>
    ELSE <<Head(path)>> \o BeforeQuery(Tail(path))

\* `?t=${Date.now()}`
ProxyCacheBuster(now) == <<"?", "t", "=", ToString(now)>>

\* `${backendBaseUrl}${cleanImagePath}${cacheBuster}`
CacheBustedUrl(imagePath, now) ==
    <<BackendBaseUrl>> \o BeforeQuery(imagePath) \o ProxyCacheBuster(now)

\* What the image endpoint can answer: a status, a declared content type (or
\* none) and, when the body is read, its length in bytes or a read failure.
AssetStatuses == {200, 404, 500}
StatusText(status) ==
    CASE status = 404 -> "Not Found"
      [] status = 500 -> "Internal Server Error"
      [] OTHER -> "OK"
ContentTypes == {Missing, "image/png", "image/jpeg", "text/html"}
ByteLengths == {0, 50, 99, 100, 101, 10000}
MinImageBytes == 100
BodyUnread == -1

\* contentType || 'image/png'
ForwardedType(contentType) == IF Falsy(contentType) THEN "image/png" ELSE contentType

\* a size check that is off by one
TooSmall_m(byteLength) == byteLength <= 100

\* imageData.byteLength < 100
TooSmall(byteLength) == byteLength < MinImageBytes

NoHeaders ==
    [contentType |-> Missing, cacheControl |-> Missing, pragma |-> Missing,
     expires |-> Missing]

\* res.status(s).json({ error, imagePath? }); the error text is kept as its
\* fixed part followed by the details interpolated into it.
JsonError(status, error, imagePath) ==
    [kind |-> "json", status |-> status, error |-> error, imagePath |-> imagePath,
     byteLength |-> 0]
\* a probe answered with a body
EmptyOk_m ==
    [kind |-> "bytes", status |-> 200, error |-> <<>>, imagePath |-> <<>>,
     byteLength |-> 100]

\* res.status(200).end() and res.status(200).send(Buffer.from(imageData))
EmptyOk == [kind |-> "empty", status |-> 200, error |-> <<>>, imagePath |-> <<>>,
            byteLength |-> 0]
ImageOk(n) == [kind |-> "bytes", status |-> 200, error |-> <<>>, imagePath |-> <<>>,
               byteLength |-> n]

\* the three failure responses (lines 41-43, 69, 76-79)
UpstreamFailure(status) ==
    JsonError(status, <<"Failed to fetch image: ", ToString(status), StatusText(status)>>, <<>>)
\* a size rejection that throws into the catch block instead
SizeFailure_m ==
    [kind |-> "json", status |-> 500,
     error |-> <<"Failed to proxy image: ", "Invalid image data received">>,
     imagePath |-> <<>>, byteLength |-> 0]

SizeFailure == JsonError(500, <<"Invalid image data received">>, <<>>)
TransportFailure(message, cleanImagePath) ==
    JsonError(500, <<"Failed to proxy image: ", message>>, cleanImagePath)

ProxyInit ==
    /\ a_pc = "idle"
    /\ a_req = [method |-> Missing, given |-> FALSE, imagePath |-> <<>>]
    /\ a_now = 0 /\ a_fetch = Null /\ a_up = Null /\ a_headers = NoHeaders
    /\ a_resp = Null /\ a_path = "none"

\* handler, from entry to the fetch (lines 3-37)
ProxyRequest(method, given, imagePath, now) ==
    /\ a_pc = "idle"
    /\ UNCHANGED <<relayVars, searchVars, imageVars, clientVars>>
    /\ a_req' = [method |-> method, given |-> given, imagePath |-> imagePath]
    /\ IF method # "GET" /\ method # "HEAD"
       THEN /\ a_resp' = JsonError(405, <<"Method not allowed">>, <<>>)
            /\ a_pc' = "done" /\ a_path' = "method"
            /\ UNCHANGED <<a_now, a_fetch>>
       ELSE IF ~given \/ imagePath = <<>>
       THEN /\ a_resp' = JsonError(400, <<"Missing imagePath parameter">>, <<>>)
            /\ a_pc' = "done" /\ a_path' = "invalid"
            /\ UNCHANGED <<a_now, a_fetch>>
       ELSE /\ a_now' = now
            /\ a_fetch' = [kind |-> "fetch", url |-> CacheBustedUrl(imagePath, now),
                           method |-> method]
            /\ a_pc' = "fetch"
            /\ UNCHANGED <<a_resp, a_path>>
    /\ UNCHANGED <<a_up, a_headers>>

\* await fetch(cacheBustedUrl, ...) rejects: catch (lines 74-80)
ProxyFetchFails ==
    /\ a_pc = "fetch"
    /\ UNCHANGED <<relayVars, searchVars, imageVars, clientVars>>
    /\ a_resp' = TransportFailure("fetch failed", BeforeQuery(a_req.imagePath))
    /\ a_pc' = "done" /\ a_path' = "transport"
    /\ UNCHANGED <<a_req, a_now, a_fetch, a_up, a_headers>>

\* await fetch(cacheBustedUrl, ...) resolves (lines 39-63)
ProxyFetchResponds(status, contentType) ==
    /\ a_pc = "fetch"
    /\ UNCHANGED <<relayVars, searchVars, imageVars, clientVars>>
    /\ a_up' = [kind |-> "response", status |-> status, contentType |-> contentType,
                byteLength |-> BodyUnread]
    /\ IF ~IsOk(status)
       THEN /\ a_resp' = UpstreamFailure(status)
            /\ a_pc' = "done" /\ a_path' = "status"
            /\ UNCHANGED a_headers
       ELSE IF a_req.method = "HEAD"
       THEN /\ a_headers' = [a_headers EXCEPT !.contentType = ForwardedType(contentType)]
            /\ a_resp' = EmptyOk
            /\ a_pc' = "done" /\ a_path' = "head"
       ELSE /\ a_headers' = [contentType |-> ForwardedType(contentType),
                              cacheControl |-> "no-cache, no-store, must-revalidate",
                              pragma |-> "no-cache", expires |-> "0"]
            /\ a_pc' = "body"
            /\ UNCHANGED <<a_resp, a_path>>
    /\ UNCHANGED <<a_req, a_now, a_fetch>>

\* await response.arrayBuffer() resolves with byteLength bytes (lines 63-73)
ProxyBodyRead(byteLength) ==
    /\ a_pc = "body"
    /\ UNCHANGED <<relayVars, searchVars, imageVars, clientVars>>
    /\ IF TooSmall(byteLength)
       THEN \* res.json replaces the Content-Type header
            /\ a_resp' = SizeFailure
            /\ a_headers' = [a_headers EXCEPT !.contentType = "application/json"]
            /\ a_path' = "size"
       ELSE /\ a_resp' = ImageOk(byteLength)
            /\ a_path' = "image"
            /\ UNCHANGED a_headers
    /\ a_up' = [a_up EXCEPT !.byteLength = byteLength]
    /\ a_pc' = "done"
    /\ UNCHANGED <<a_req, a_now, a_fetch>>

\* await response.arrayBuffer() rejects: catch (lines 74-80)
ProxyBodyFails ==
    /\ a_pc = "body"
    /\ UNCHANGED <<relayVars, searchVars, imageVars, clientVars>>
    /\ a_resp' = TransportFailure("body read failed", BeforeQuery(a_req.imagePath))
    /\ a_headers' = [a_headers EXCEPT !.contentType = "application/json"]
    /\ a_pc' = "done" /\ a_path' = "transport"
    /\ UNCHANGED <<a_req, a_now, a_fetch, a_up>>

ProxyNext ==
    \/ \E m \in ProxyMethods, g \in BOOLEAN, ip \in ImagePaths, now \in Clock :
           ProxyRequest(m, g, ip, now)
    \/ ProxyFetchFails
    \/ \E st \in AssetStatuses, ct \in ContentTypes : ProxyFetchResponds(st, ct)
    \/ \E n \in ByteLengths : ProxyBodyRead(n)
    \/ ProxyBodyFails

\* ------------------------------------------------------- image generation
MaxCalls == 2
MaxUrlLen == 2

ImageMethods == {"POST", "GET"}
Prompts == {Missing, "", "p"}
\* req.body.timestamp; 0 stands for an absent or zero value, both falsy
Timestamps == {0, 7}
ImageStatuses == {200, 500}
ImageUrls == SeqsUpTo(PathChars, MaxUrlLen)
\* Math.random().toString(36).substring(7): empty when the digits are few
RandomTokens == {<<>>, <<"k">>, <<"z">>}
ImageTimeout == 30000

\* what response.json() can resolve to
ImageData ==
    {Null, [kind |-> "object", has_url |-> FALSE, image_url |-> <<>>]}
    \cup {[kind |-> "object", has_url |-> TRUE, image_url |-> u] : u \in ImageUrls}

\* !data || !data.image_url
NoImageUrl(data) ==
    \/ data.kind = "null"
    \/ ~data.has_url
    \/ data.image_url = <<>>

\* encodeURIComponent, symbol by symbol
EncodeChar(c) ==
    CASE c = "/" -> <<"%", "2", "F">>
      [] c = "?" -> <<"%", "3", "F">>
      [] OTHER -> <<c>>

RECURSIVE EncodeURIComponent(_)
EncodeURIComponent(s) ==
    IF s = <<>> THEN <<>>
    ELSE EncodeChar(Head(s)) \o EncodeURIComponent(Tail(s))

\* `?t=${Date.now()}&r=${Math.random().toString(36).substring(7)}`
ImageCacheBuster(now, token) ==
    <<"?", "t", "=", ToString(now), "&", "r", "=">> \o token

\* `/api/proxy-image?imagePath=${encodeURIComponent(data.image_url)}${cacheBuster}`
ProxyUrl(image_url, now, token) ==
    <<"/api/proxy-image", "?", "imagePath", "=">> \o EncodeURIComponent(image_url)
        \o ImageCacheBuster(now, token)

\* The page (content.jsx): the URL kept in generatedImages[prompt] and the
\* src of the img element.
PageImageUrl(image_url, token) == image_url \o <<"?", "cache", "=">> \o token
ImgSrc(stored, now) == stored \o <<"?", "cache", "=", ToString(now)>>

\* The asset proxy's req.query: the text after the first '?' of the request
\* URL, cut at every '&' into name=value pairs, the value percent-decoded.
RECURSIVE BeforeFirst(_, _)
BeforeFirst(s, c) ==
    IF s = <<>> \/ Head(s) = c THEN <<>>
    ELSE <<Head(s)>> \o BeforeFirst(Tail(s), c)

AfterFirst(s, c) ==
    LET n == Len(BeforeFirst(s, c))
    IN  IF n = Len(s) THEN <<>> ELSE SubSeq(s, n + 2, Len(s))

RECURSIVE SplitAt(_, _)
SplitAt(s, c) ==
    IF Len(BeforeFirst(s, c)) = Len(s) THEN <<s>>
    ELSE <<BeforeFirst(s, c)>> \o SplitAt(AfterFirst(s, c), c)

\* a query parser that leaves the escapes in place
DecodeURIComponent_m(s) == s

RECURSIVE DecodeURIComponent(_)
DecodeURIComponent(s) ==
    IF s = <<>> THEN <<>>
    ELSE IF Len(s) >= 3 /\ SubSeq(s, 1, 3) = <<"%", "2", "F">>
    THEN <<"/">> \o DecodeURIComponent(SubSeq(s, 4, Len(s)))
    ELSE IF Len(s) >= 3 /\ SubSeq(s, 1, 3) = <<"%", "3", "F">>
    THEN <<"?">> \o DecodeURIComponent(SubSeq(s, 4, Len(s)))
    ELSE <<Head(s)>> \o DecodeURIComponent(Tail(s))

QueryValue(url, name) ==
    LET pairs == SplitAt(AfterFirst(url, "?"), "&")
        named == SelectSeq(pairs, LAMBDA p : BeforeFirst(p, "=") = <<name>>)
    IN  IF named = <<>> THEN <<>>
        ELSE DecodeURIComponent(AfterFirst(named[1], "="))

NullUrl == <<"<null>">>
NoRef == [image_url |-> NullUrl, reference |-> NullUrl]

ImageFailure(status, error) ==
    [status |-> status, success |-> FALSE, image_url |-> NullUrl,
     original_url |-> NullUrl, error |-> error]

ImageSuccess(image_url, proxyUrl) ==
    [status |-> 200, success |-> TRUE, image_url |-> proxyUrl,
     original_url |-> <<BackendBaseUrl>> \o image_url, error |-> <<>>]

ImageInit ==
    /\ g_pc = "idle"
    /\ g_req = [method |-> Missing, prompt |-> Missing, timestamp |-> 0]
    /\ g_now = 0
    /\ g_fetch = Null
    /\ g_up = 0
    /\ g_resp = Null
    /\ g_path = "none"
    /\ g_calls = 0
    /\ g_last = NoRef

\* A call arrives after the one before it has returned: method check, prompt
\* check, the backend request is sent.
ImageRequest(method, prompt, timestamp, now) ==
    /\ g_pc \in {"idle", "done"}
    /\ g_calls < MaxCalls
    /\ now >= g_now
    /\ g_calls' = g_calls + 1
    /\ g_req' = [method |-> method, prompt |-> prompt, timestamp |-> timestamp]
    /\ g_up' = 0
    /\ IF method # "POST"
       THEN /\ g_resp' = ImageFailure(405, <<"Method not allowed">>)
            /\ g_path' = "method"
            /\ g_pc' = "done"
            /\ g_fetch' = Null
            /\ g_now' = g_now
       ELSE IF Falsy(prompt)
       THEN /\ g_resp' = ImageFailure(400, <<"Missing prompt">>)
            /\ g_path' = "invalid"
            /\ g_pc' = "done"
            /\ g_fetch' = Null
            /\ g_now' = g_now
       ELSE /\ g_fetch' = [kind |-> "fetch",
                           url |-> <<BackendBaseUrl, "/api/images/generate-gemini">>,
                           prompt |-> prompt,
                           timestamp |-> IF timestamp = 0 THEN now ELSE timestamp,
                           deadline |-> FetchDeadline(ImageTimeout)]
            /\ g_now' = IF timestamp = 0 THEN now ELSE g_now
            /\ g_resp' = Null
            /\ g_path' = "none"
            /\ g_pc' = "fetch"
    /\ UNCHANGED g_last
    /\ UNCHANGED <<relayVars, searchVars, proxyVars, clientVars>>

\* fetch rejects
ImageFetchFails ==
    /\ g_pc = "fetch"
    /\ g_resp' = ImageFailure(500, <<"Network error: ", "m">>)
    /\ g_path' = "network"
    /\ g_pc' = "done"
    /\ UNCHANGED <<g_req, g_now, g_fetch, g_up, g_calls, g_last>>
    /\ UNCHANGED <<relayVars, searchVars, proxyVars, clientVars>>

\* fetch resolves
ImageFetchResponds(status) ==
    /\ g_pc = "fetch"
    /\ g_up' = status
    /\ g_pc' = IF IsOk(status) THEN "json" ELSE "text"
    /\ UNCHANGED <<g_req, g_now, g_fetch, g_resp, g_path, g_calls, g_last>>
    /\ UNCHANGED <<relayVars, searchVars, proxyVars, clientVars>>

\* await response.text() of a non-ok response settles
ImageTextSettles(readOk) ==
    /\ g_pc = "text"
    /\ g_resp' = ImageFailure(g_up,
                    <<"API error: ">> \o
                    (IF readOk THEN <<"body">> ELSE <<"Status ", ToString(g_up)>>))
    /\ g_path' = "status"
    /\ g_pc' = "done"
    /\ UNCHANGED <<g_req, g_now, g_fetch, g_up, g_calls, g_last>>
    /\ UNCHANGED <<relayVars, searchVars, proxyVars, clientVars>>

\* await response.json() rejects
ImageJsonFails ==
    /\ g_pc = "json"
    /\ g_resp' = ImageFailure(500, <<"Invalid JSON response from backend">>)
    /\ g_path' = "json"
    /\ g_pc' = "done"
    /\ UNCHANGED <<g_req, g_now, g_fetch, g_up, g_calls, g_last>>
    /\ UNCHANGED <<relayVars, searchVars, proxyVars, clientVars>>

\* await response.json() resolves: validation, cache buster, proxied URL
ImageJsonParsed(data, now, token) ==
    /\ g_pc = "json"
    /\ now >= g_now
    /\ IF NoImageUrl(data)
       THEN /\ g_resp' = ImageFailure(500, <<"Backend did not return an image URL">>)
            /\ g_path' = "nourl"
            /\ UNCHANGED <<g_now, g_last>>
       ELSE /\ g_now' = now
            /\ g_resp' = ImageSuccess(data.image_url, ProxyUrl(data.image_url, now, token))
            /\ g_path' = "ok"
            /\ g_last' = [image_url |-> data.image_url,
                          reference |-> ProxyUrl(data.image_url, now, token)]
    /\ g_pc' = "done"
    /\ UNCHANGED <<g_req, g_fetch, g_up, g_calls>>
    /\ UNCHANGED <<relayVars, searchVars, proxyVars, clientVars>>

ImageNext ==
    \/ \E method \in ImageMethods, prompt \in Prompts, timestamp \in Timestamps,
          now \in Clock :
           ImageRequest(method, prompt, timestamp, now)
    \/ ImageFetchFails
    \/ \E status \in ImageStatuses : ImageFetchResponds(status)
    \/ \E readOk \in BOOLEAN : ImageTextSettles(readOk)
    \/ ImageJsonFails
    \/ \E data \in ImageData, now \in Clock, token \in RandomTokens :
           ImageJsonParsed(data, now, token)

\* -------------------------------------------- StreamingContentGenerator
MaxMsgs == 2
MaxSessions == 2
MaxShort == 1

Sessions == 1..MaxSessions

\* A character that takes two bytes in UTF-8, its bytes, and U+FFFD.
LeadByte == "<c3>"
TrailByte == "<a9>"
Accented == "e'"
Replacement == "<fffd>"

\* Blocks the relay's response can hold, as bytes.
ClientPayloads ==
    { <<"C", "a">>, <<"C", LeadByte, TrailByte>>, <<"F", "p">>, <<"E", "m">>, <<"x">> }
ClientBlocks == { Encode(p) : p \in ClientPayloads }
\* a block whose blank-line terminator never arrived
Fragment == DataPrefix \o <<"C", "a">>
WiresUpTo(n) ==
    { Flatten(bs) \o tail : bs \in SeqsUpTo(ClientBlocks, n), tail \in {<<>>, Fragment} }
ClientWires == WiresUpTo(MaxMsgs)
\* the responses drawn when several requests run: complete blocks only
ShortWires == { Flatten(bs) : bs \in SeqsUpTo(ClientBlocks, MaxShort) }

\* decoder.decode(value): each call decodes its own bytes and is flushed, so
\* a byte sequence cut by the end or the start of value becomes U+FFFD.
RECURSIVE Decode(_)
Decode(bytes) ==
    IF bytes = <<>> THEN <<>>
    ELSE IF Len(bytes) >= 2 /\ bytes[1] = LeadByte /\ bytes[2] = TrailByte
    THEN <<Accented>> \o Decode(SubSeq(bytes, 3, Len(bytes)))
    ELSE IF Head(bytes) \in {LeadByte, TrailByte}
    THEN <<Replacement>> \o Decode(Tail(bytes))
    ELSE <<Head(bytes)>> \o Decode(Tail(bytes))

\* String.prototype.split('\n\n')
RECURSIVE SplitBlankFrom(_, _)
SplitBlankFrom(s, cur) ==
    IF s = <<>> THEN <<cur>>
    ELSE IF Len(s) >= 2 /\ s[1] = NL /\ s[2] = NL
    THEN <<cur>> \o SplitBlankFrom(SubSeq(s, 3, Len(s)), <<>>)
    ELSE SplitBlankFrom(Tail(s), Append(cur, Head(s)))

SplitBlank(s) == SplitBlankFrom(s, <<>>)

\* The state one loop iteration works on: the component's state and the
\* loop's own buffer; log is every payload handed to JSON.parse, returned
\* tells that the function has returned.
NoLoop == [pc |-> "none", stream |-> <<>>, taken |-> 0, buffer |-> <<>>,
           log |-> <<>>, exit |-> "none"]

FreshState ==
    [content |-> <<>>, prompts |-> <<>>, error |-> <<>>, loading |-> TRUE,
     streaming |-> TRUE, buffer |-> <<>>, log |-> <<>>, returned |-> FALSE]

\* a message handler whose JSON.parse is not inside a try/catch
ProcessMessage_m(st, message, k) ==
    IF ~StartsWith(message, DataPrefix) THEN st
    ELSE LET payload == Slice(message, 6)
             kind == FrameKind(payload)
             seen == [st EXCEPT !.log = Append(st.log, payload)]
         IN  CASE kind = "malformed" ->
                    [seen EXCEPT !.error = <<"Unexpected token">>, !.streaming = FALSE,
                                 !.loading = FALSE, !.returned = TRUE]
               [] kind = "error" ->
                    [seen EXCEPT !.error = Tail(payload), !.streaming = FALSE,
                                 !.loading = FALSE, !.returned = TRUE]
               [] kind = "finished" ->
                    [seen EXCEPT !.prompts = IF Len(payload) > 1 THEN Tail(payload)
                                             ELSE st.prompts,
                                 !.streaming = FALSE, !.loading = FALSE]
               [] OTHER ->
                    [seen EXCEPT !.content =
                        Append(st.content, [session |-> k, text |-> Tail(payload)])]

\* the body of `for (const message of messages)` (lines 80-106)
ProcessMessage(st, message, k) ==
    IF ~StartsWith(message, DataPrefix) THEN st
    ELSE LET payload == Slice(message, 6)
             kind == FrameKind(payload)
             seen == [st EXCEPT !.log = Append(st.log, payload)]
         IN  CASE kind = "malformed" -> seen
               [] kind = "error" ->
                    [seen EXCEPT !.error = Tail(payload), !.streaming = FALSE,
                                 !.loading = FALSE, !.returned = TRUE]
               [] kind = "finished" ->
                    [seen EXCEPT !.prompts = IF Len(payload) > 1 THEN Tail(payload)
                                             ELSE st.prompts,
                                 !.streaming = FALSE, !.loading = FALSE]
               [] OTHER ->
                    [seen EXCEPT !.content =
                        Append(st.content, [session |-> k, text |-> Tail(payload)])]

RECURSIVE ProcessMessages(_, _, _)
ProcessMessages(st, messages, k) ==
    IF messages = <<>> \/ st.returned THEN st
    ELSE ProcessMessages(ProcessMessage(st, Head(messages), k), Tail(messages), k)

\* one iteration of the read loop with a value (lines 72-107)
ConsumeChunk(st, value, k) ==
    LET text == st.buffer \o Decode(value)
        messages == SplitBlank(text)
        n == Len(messages)
    IN  ProcessMessages([st EXCEPT !.buffer = messages[n]],
                        SubSeq(messages, 1, n - 1), k)

ClientInit ==
    /\ c_loading = FALSE
    /\ c_streaming = FALSE
    /\ c_content = <<>>
    /\ c_prompts = <<>>
    /\ c_error = <<>>
    /\ c_loops = [k \in Sessions |-> NoLoop]
    /\ c_n = 0

\* The submit button is enabled (line 168): handleSubmit up to the fetch.
\* stream is what the server will answer this request with.
ClientSubmit(stream) ==
    /\ ~(c_streaming \/ c_loading)
    /\ c_n < MaxSessions
    /\ c_n' = c_n + 1
    /\ c_content' = <<>>
    /\ c_prompts' = <<>>
    /\ c_error' = <<>>
    /\ c_loading' = TRUE
    /\ c_streaming' = TRUE
    /\ c_loops' = [c_loops EXCEPT ![c_n + 1] =
                      [NoLoop EXCEPT !.pc = "fetch", !.stream = stream]]
    /\ UNCHANGED <<relayVars, searchVars, proxyVars, imageVars>>

\* The catch block (lines 110-115)
ClientCatch(k, message) ==
    /\ c_error' = message
    /\ c_loading' = FALSE
    /\ c_streaming' = FALSE
    /\ c_loops' = [c_loops EXCEPT ![k].pc = "exited", ![k].exit = "catch"]
    /\ UNCHANGED <<c_content, c_prompts, c_n>>

\* await fetch settles: rejected, answered without success, or answered ok
ClientFetchSettles(k, outcome) ==
    /\ c_loops[k].pc = "fetch"
    /\ IF outcome = "ok"
       THEN /\ c_loops' = [c_loops EXCEPT ![k].pc = "read"]
            /\ UNCHANGED <<c_loading, c_streaming, c_content, c_prompts, c_error, c_n>>
       ELSE ClientCatch(k, IF outcome = "rejected" THEN <<"fetch failed">>
                           ELSE <<"Server responded with status: ", "500">>)
    /\ UNCHANGED <<relayVars, searchVars, proxyVars, imageVars>>

\* reader.read() resolves with the next n bytes
ClientRead(k, n) ==
    /\ c_loops[k].pc = "read"
    /\ n \in 1..(Len(c_loops[k].stream) - c_loops[k].taken)
    /\ LET loop == c_loops[k]
           value == SubSeq(loop.stream, loop.taken + 1, loop.taken + n)
           st == ConsumeChunk([content |-> c_content, prompts |-> c_prompts,
                               error |-> c_error, loading |-> c_loading,
                               streaming |-> c_streaming, buffer |-> loop.buffer,
                               log |-> loop.log, returned |-> FALSE], value, k)
       IN  /\ c_content' = st.content
           /\ c_prompts' = st.prompts
           /\ c_error' = st.error
           /\ c_loading' = st.loading
           /\ c_streaming' = st.streaming
           /\ c_loops' = [c_loops EXCEPT
                  ![k] = [loop EXCEPT !.taken = loop.taken + n,
                                      !.buffer = st.buffer,
                                      !.log = st.log,
                                      !.pc = IF st.returned THEN "exited" ELSE "read",
                                      !.exit = IF st.returned THEN "error" ELSE "none"]]
    /\ UNCHANGED c_n
    /\ UNCHANGED <<relayVars, searchVars, proxyVars, imageVars>>

\* reader.read() resolves with done: break (lines 67-70)
ClientReadDone(k) ==
    /\ c_loops[k].pc = "read"
    /\ c_loops[k].taken = Len(c_loops[k].stream)
    /\ c_loops' = [c_loops EXCEPT ![k].pc = "exited", ![k].exit = "done"]
    /\ UNCHANGED <<c_loading, c_streaming, c_content, c_prompts, c_error, c_n>>
    /\ UNCHANGED <<relayVars, searchVars, proxyVars, imageVars>>

\* reader.read() rejects: catch
ClientReadFails(k) ==
    /\ c_loops[k].pc = "read"
    /\ ClientCatch(k, <<"read failed">>)
    /\ UNCHANGED <<relayVars, searchVars, proxyVars, imageVars>>

\* handleCancel; the Cancel button is rendered while streaming (line 181)
ClientCancel ==
    /\ c_streaming
    /\ c_loading' = FALSE
    /\ c_streaming' = FALSE
    /\ UNCHANGED <<c_content, c_prompts, c_error, c_loops, c_n>>
    /\ UNCHANGED <<relayVars, searchVars, proxyVars, imageVars>>

FetchOutcomes == {"rejected", "notok", "ok"}
\* the sizes a read can have: up to the longest response
ReadSizes ==
    1..(CHOOSE m \in {Len(w) : w \in ClientWires} :
            \A w \in ClientWires : Len(w) <= m)

\* one submission, nobody presses Cancel
ConsumerNext ==
    \/ \E stream \in ClientWires : c_n = 0 /\ ClientSubmit(stream)
    \/ \E k \in Sessions, outcome \in FetchOutcomes : ClientFetchSettles(k, outcome)
    \/ \E k \in Sessions, n \in ReadSizes : ClientRead(k, n)
    \/ \E k \in Sessions : ClientReadDone(k)
    \/ \E k \in Sessions : ClientReadFails(k)

\* the component with its Cancel button and repeated submissions
ComponentNext ==
    \/ \E stream \in ShortWires : ClientSubmit(stream)
    \/ \E k \in Sessions, outcome \in FetchOutcomes : ClientFetchSettles(k, outcome)
    \/ \E k \in Sessions, n \in ReadSizes : ClientRead(k, n)
    \/ \E k \in Sessions : ClientReadDone(k)
    \/ \E k \in Sessions : ClientReadFails(k)
    \/ ClientCancel

\* ---------------------------------------------------------- specifications
Init == RelayInit /\ SearchInit /\ ProxyInit /\ ImageInit /\ ClientInit

\* One request to each handler; the two share no state.
SpecRelay == Init /\ [][RelayNext]_vars

SpecSearch == Init /\ [][SearchNext]_vars

SpecProxy == Init /\ [][ProxyNext]_vars

SpecImage == Init /\ [][ImageNext]_vars

SpecConsumer == Init /\ [][ConsumerNext]_vars

SpecComponent == Init /\ [][ComponentNext]_vars

Next == RelayNext \/ SearchNext \/ ProxyNext \/ ImageNext \/ ComponentNext

Spec == Init /\ [][Next]_vars

\* ------------------------------------------- stream relay: derived values
\* The logical frames the upstream sent: the payloads of its data blocks.
RECURSIVE FramesOf(_)
FramesOf(blocks) ==
    IF blocks = <<>> THEN <<>>
    ELSE LET b == Head(blocks)
         IN  (IF StartsWith(b, DataPrefix)
              THEN <<SubSeq(b, Len(DataPrefix) + 1, Len(b) - 2)>>
              ELSE <<>>) \o FramesOf(Tail(blocks))

SentFrames == FramesOf(r_sent)

PayloadsOf(blocks) == [i \in 1..Len(blocks) |-> blocks[i].payload]
FromUpstream(b) == b.origin = "upstream"
Forwarded == SelectSeq(r_out, FromUpstream)
CountKind(blocks, kind) ==
    Cardinality({i \in 1..Len(blocks) : FrameKind(blocks[i].payload) = kind})

\* Every chunk read so far ended on a block boundary.
RECURSIVE EndsOnBoundary(_, _)
EndsOnBoundary(blocks, n) ==
    IF n = 0 THEN TRUE
    ELSE IF blocks = <<>> \/ Len(Head(blocks)) > n THEN FALSE
    ELSE EndsOnBoundary(Tail(blocks), n - Len(Head(blocks)))

ReadsAligned ==
    \A k \in 1..Len(r_read) :
        EndsOnBoundary(r_sent, Len(Flatten(SubSeq(r_read, 1, k))))

\* What the forwarding loop has written for the chunks read so far.
ForwardedPerChunk == Flatten([i \in 1..Len(r_read) |-> ForwardChunk(r_read[i])])

PostedStream == r_req.method = "POST"

\* ------------------------------------------------------ stream relay claims

\* C1: when the upstream delivers frames F1..Fk and closes cleanly, the
\* client stream is F1..Fk in order, then one finished frame, and among all
\* blocks written exactly one is a finished frame.  (Stated for reads that
\* end on block boundaries, so that it does not depend on C5.)
C1_OneFinishedFrame ==
    (r_path = "finished" /\ ReadsAligned) =>
        /\ PayloadsOf(r_out) = Append(SentFrames, FinishedJson)
        /\ CountKind(r_out, "finished") = 1

\* C2: when the upstream connection cannot be established or the upstream
\* answers with a non-success status, the client stream is exactly one error
\* frame, carrying the status in the non-success case, and is then ended.
C2_SetupFailureFrame ==
    (r_pc = "done" /\ (r_path = "connect" \/ (r_upStatus # 0 /\ ~IsOk(r_upStatus)))) =>
        /\ Len(r_out) = 1
        /\ FrameKind(r_out[1].payload) = "error"
        /\ r_ends = 1
        /\ (r_upStatus # 0 => r_out[1].payload = ErrorJson(ApiErrorMsg(r_upStatus)))

\* C5: however the upstream bytes are split into reads, the relay forwards
\* the frames it forwards when the same bytes arrive as one chunk: all N
\* logical frames, same contents, same order.
C5_ChunkIndependence ==
    r_path = "finished" =>
        /\ Forwarded = ForwardChunk(Flatten(r_read))
        /\ PayloadsOf(Forwarded) = SentFrames

\* C6: a streaming request whose topic or audience is missing or empty gets
\* exactly one error frame, the stream is ended, and no request to the
\* generation endpoint is made.
C6_InvalidInputFailsFast ==
    (PostedStream /\ (Falsy(r_req.topic) \/ Falsy(r_req.audience))) =>
        /\ r_out = <<Block("relay", ErrorJson("Missing required fields"))>>
        /\ r_ends = 1
        /\ r_pc = "done"
        /\ r_fetches = 0

C6_Witness ==
    /\ r_pc = "done" /\ PostedStream
    /\ r_req.topic = "v" /\ r_req.audience = ""
    /\ Len(r_out) = 1 /\ r_ends = 1

\* C8: when reading the upstream fails after j frames were forwarded, the
\* client stream is those j frames, then one error frame written by the
\* relay, then the end: the relay writes no finished frame and no second
\* error frame, and what was forwarded stays as it was.
C8_ReadFailure ==
    r_path = "read" =>
        LET n == Len(r_out)
        IN  /\ n >= 1
            /\ r_out[n] = Block("relay", ErrorJson("Stream processing error"))
            /\ SubSeq(r_out, 1, n - 1) = ForwardedPerChunk
            /\ \A i \in 1..(n - 1) : r_out[i].origin = "upstream"
            /\ r_ends = 1
            /\ r_pc = "done"

C8_Witness ==
    /\ r_path = "read" /\ Len(r_out) = 3
    /\ r_out[1].origin = "upstream" /\ r_out[2].origin = "upstream"
    /\ FrameKind(r_out[3].payload) = "error"

\* ---------------------------------------------------- search resolver claims
PostedSearch == s_req.method = "POST"
LastAttempt == s_attempts[Len(s_attempts)]

\* An attempt that failed as the specification counts failure: a transport
\* error (a timeout among them) or a non-success status.
FailedAttempt(a) ==
    \/ a.result.kind \in {"transport", "timeout"}
    \/ a.result.kind = "status" /\ ~IsOk(a.result.status)

\* The failure descriptions the response carries: its error text ends in
\* the message of lastError and names no other failure.
ReportedFailures == IF s_lastError = NoError THEN <<>> ELSE <<s_lastError>>

\* C3: after the first attempt that returns a success status no further
\* attempt is made, and the response is that attempt's payload (so with A
\* failing twice and B's tool variant succeeding, neither B's prompt variant
\* nor C is attempted).
C3_FirstSuccessStops ==
    \A i \in 1..Len(s_attempts) :
        OkStatus(s_attempts[i].result) =>
            /\ i = Len(s_attempts)
            /\ s_pc = "done"
            /\ s_resp = Resp(200, Missing, Missing, Missing, s_attempts[i].result.body)

C7_EmptyQueryRejected ==
    (PostedSearch /\ Falsy(s_req.query)) =>
        /\ s_resp = Resp(400, "Missing search query", Missing, Missing, Missing)
        /\ s_attempts = <<>>
        /\ s_pc = "done"

C7_Witness ==
    /\ s_pc = "done" /\ PostedSearch /\ s_req.query = ""
    /\ s_resp.status = 400 /\ s_attempts = <<>>

\* C9: addresses are visited in list order, the tool variant first; the
\* prompt variant of an address is attempted if and only if its tool attempt
\* failed (non-success status or transport error), and an address is
\* attempted only after both variants of the address before it failed.
C9_AttemptOrder ==
    \A i \in 1..Len(s_attempts) :
        LET a == s_attempts[i]
        IN  /\ a.url = s_urls[(i + 1) \div 2]
            /\ a.variant = (IF i % 2 = 1 THEN "tool" ELSE "prompt")
            /\ (a.variant = "prompt" => FailedAttempt(s_attempts[i - 1]))
            /\ (a.variant = "tool" /\ FailedAttempt(a)) =>
                   (i < Len(s_attempts) /\ s_attempts[i + 1].variant = "prompt")
            /\ (a.variant = "tool" /\ i > 1) =>
                   (FailedAttempt(s_attempts[i - 1]) /\ FailedAttempt(s_attempts[i - 2]))

\* C10: when all attempts fail the handler answers with status 200 and a
\* body with an error description, mock: true and troubleshooting text;
\* total upstream failure never produces a 5xx status.
C10_ExhaustedAnswers200 ==
    s_path = "exhausted" =>
        /\ s_resp.status = 200
        /\ s_resp.mock = TRUE
        /\ s_resp.error # Missing
        /\ s_resp.answer # Missing

\* C11: success is decided by the response status alone: an attempt that
\* returns a success status ends the resolution with its payload, whatever
\* the body is (empty or unparsable included), so the resolver is never
\* exhausted after some attempt returned a success status.
C11_StatusAloneDecides ==
    \A i \in 1..Len(s_attempts) :
        OkStatus(s_attempts[i].result) =>
            /\ s_path \in {"tool", "prompt"}
            /\ s_resp.status = 200
            /\ s_resp.data = s_attempts[i].result.body

\* C12: every attempt is bounded by the 15 s timeout, and an attempt that
\* timed out is handled as one that failed with an error: after a timed-out
\* tool attempt the prompt variant of the same address is tried, after a
\* timed-out prompt attempt the next address (or the failure response).
C12_AttemptsBounded ==
    \A i \in 1..Len(s_attempts) :
        LET a == s_attempts[i]
        IN  /\ a.result # Hung
            /\ (a.result = TimedOut /\ a.variant = "tool") =>
                   /\ i < Len(s_attempts)
                   /\ s_attempts[i + 1].variant = "prompt"
                   /\ s_attempts[i + 1].url = a.url
            /\ (a.result = TimedOut /\ a.variant = "prompt") =>
                   IF i < 2 * Len(s_urls)
                   THEN i < Len(s_attempts) /\ s_attempts[i + 1].variant = "tool"
                   ELSE s_path = "exhausted"

\* ------------------------------------------- stream relay: session claims
\* The upstream connection is held from the response until its body has
\* been read to the end or a read of it has failed; the handler never
\* cancels the reader or aborts the fetch.
UpstreamHeld == r_pc \in {"text", "read"}

\* State of the session: Pending, Streaming, Completed or Errored.
SessionState ==
    CASE r_pc \in {"idle", "fetch", "text"} -> "Pending"
      [] r_pc = "read" -> "Streaming"
      [] r_pc = "done" /\ r_path = "finished" -> "Completed"
      [] OTHER -> "Errored"

Terminal(state) == state \in {"Completed", "Errored"}
Rank(state) ==
    CASE state = "Pending" -> 0 [] state = "Streaming" -> 1 [] OTHER -> 2

\* C13: once the client has disconnected, the relay starts no further read
\* of the upstream and does not go on holding the upstream connection: a
\* step the handler takes with the client gone never leaves it waiting for
\* another read.
C13_StopsOnDisconnect ==
    [][(r_clientGone /\ (r_reads' # r_reads \/ r_pc' # r_pc)) =>
          (r_pc' # "read" /\ ~UpstreamHeld')]_vars

\* C14: every session reaches a terminal state with the response ended; no
\* session stays Pending or Streaming with nothing left that would move it,
\* also after a client disconnect or when the upstream goes silent.
C14_SessionsTerminate ==
    /\ (r_pc # "idle" /\ ~Terminal(SessionState)) => ENABLED RelayHandlerStep
    /\ Terminal(SessionState) => r_ends = 1

\* C15: the session state only moves forward, and once the handler has
\* ended the response it writes no further frame, ends the response no
\* second time and reads nothing more from the upstream.
C15_TerminalAbsorbing ==
    [][/\ Rank(SessionState') >= Rank(SessionState)
       /\ (Terminal(SessionState) => SessionState' = SessionState)
       /\ (r_ends >= 1 =>
              /\ r_out' = r_out /\ r_ends' = r_ends /\ r_reads' = r_reads
              /\ r_pc' = r_pc)
       /\ r_ends' <= 1]_vars

\* a session that ended and then saw a further step (the client closing)
C15_Witness ==
    /\ r_pc = "done" /\ r_path = "finished" /\ r_ends = 1
    /\ r_clientGone /\ Len(r_out) >= 2

\* C28: within one search no (address, variant) pair is attempted twice, so
\* there are at most twice as many attempts as distinct candidate addresses,
\* for every value of PERPLEXITY_MCP_URL, the shipped one included.
C28_NoRepeatedAttempt ==
    /\ \A i, j \in 1..Len(s_attempts) :
           (s_attempts[i].url = s_attempts[j].url
               /\ s_attempts[i].variant = s_attempts[j].variant) => i = j
    /\ Len(s_attempts) <= 2 * Cardinality({s_urls[i] : i \in 1..Len(s_urls)})

\* ------------------------------------------------------- asset proxy claims
CacheHeadersSet ==
    /\ a_headers.cacheControl = "no-cache, no-store, must-revalidate"
    /\ a_headers.pragma = "no-cache"
    /\ a_headers.expires = "0"

\* The part of a path before its first '?', by position.
FirstQuery(path) ==
    IF \E i \in 1..Len(path) : path[i] = "?"
    THEN CHOOSE i \in 1..Len(path) :
             path[i] = "?" /\ \A j \in 1..(i - 1) : path[j] # "?"
    ELSE Len(path) + 1
PathPart(path) == SubSeq(path, 1, FirstQuery(path) - 1)
CountChar(s, c) == Cardinality({i \in 1..Len(s) : s[i] = c})

\* C16: validation of a fetched GET payload depends on its byte length only:
\* under 100 bytes it is rejected whatever type was declared, from 100 bytes
\* on it is returned with the declared content type, or image/png when the
\* upstream declared none.
C16_ValidationBySize ==
    (a_req.method = "GET" /\ a_up # Null /\ a_up.byteLength # BodyUnread) =>
        IF a_up.byteLength < 100
        THEN a_resp.kind = "json" /\ a_resp.status = 500
             /\ a_resp.error = <<"Invalid image data received">>
        ELSE /\ a_resp = ImageOk(a_up.byteLength)
             /\ a_headers.contentType =
                    (IF a_up.contentType \in {Missing, ""} THEN "image/png"
                     ELSE a_up.contentType)

C16_Witness ==
    /\ a_pc = "done" /\ a_req.method = "GET" /\ a_up # Null
    /\ a_up.byteLength = 10000 /\ a_up.contentType = "image/png"
    /\ a_resp.kind = "bytes" /\ a_headers.contentType = "image/png"

\* C17: the URL fetched upstream is the backend base address, then the part
\* of imagePath before its first '?', then one cache parameter built from
\* the current time; nothing of the caller's query reaches the upstream,
\* and stripping a stripped path changes nothing.
C17_UpstreamUrl ==
    a_fetch # Null =>
        LET clean == PathPart(a_req.imagePath)
        IN  /\ a_fetch.url = <<BackendBaseUrl>> \o clean \o <<"?", "t", "=", ToString(a_now)>>
            /\ CountChar(a_fetch.url, "?") = 1
            /\ BeforeQuery(BeforeQuery(a_req.imagePath)) = BeforeQuery(a_req.imagePath)
            /\ a_now \in Clock

C17_Witness ==
    /\ a_fetch # Null
    /\ a_req.imagePath = <<"/", "?", "a">>
    /\ a_fetch.url = <<BackendBaseUrl, "/", "?", "t", "=", "2">>

\* C19: every successful asset response, for GET and for HEAD alike, carries
\* the upstream content type (image/png when absent) and the three
\* cache-disabling headers.
C19_SuccessHeaders ==
    (a_pc = "done" /\ a_resp.status = 200) =>
        /\ a_headers.contentType = ForwardedType(a_up.contentType)
        /\ CacheHeadersSet

\* How a caller that sees only the response tells the failures apart.
FailureKind(resp) ==
    CASE resp.error[1] = "Failed to fetch image: " -> "status"
      [] resp.error[1] = "Invalid image data received" -> "size"
      [] resp.error[1] = "Failed to proxy image: " -> "transport"
      [] OTHER -> "other"

\* C20: the failure responses tell the kind of failure: an upstream
\* non-success status S gives a failure with status S, an undersized payload
\* gives 'Invalid image data received', a transport error gives 'Failed to
\* proxy image', and the three never coincide, also for an upstream 500.
C20_FailuresDistinct ==
    (a_pc = "done" /\ a_path \in {"status", "size", "transport"}) =>
        /\ a_resp.kind = "json"
        /\ FailureKind(a_resp) = a_path
        /\ (a_path = "status" => a_resp.status = a_up.status)
        /\ (a_path # "status" => a_resp.status = 500)

C20_Witness ==
    /\ a_pc = "done" /\ a_path = "status" /\ a_up.status = 500
    /\ a_resp.status = 500

\* ------------------------------------------------- image generation claims
\* C18: two sequential calls that return a reference for the same upstream
\* asset path return two different references, also when both are made
\* within one clock tick.
C18_ReferencesDiffer ==
    [][(g_pc = "json" /\ g_path' = "ok" /\ g_last # NoRef
          /\ g_last'.image_url = g_last.image_url) =>
             g_last'.reference # g_last.reference]_vars

\* C21: a HEAD request fetches, with method HEAD, the URL a GET of the same
\* imagePath would fetch; on upstream success it answers 200 with the
\* content type and no body, and no payload is read or size-validated; on
\* upstream non-success it passes the status on as GET does.
C21_HeadProbe ==
    (a_req.method = "HEAD" /\ a_fetch # Null) =>
        /\ a_fetch.method = "HEAD"
        /\ a_fetch.url = <<BackendBaseUrl>> \o PathPart(a_req.imagePath)
                            \o <<"?", "t", "=", ToString(a_now)>>
        /\ a_pc # "body"
        /\ a_path # "size"
        /\ a_up # Null =>
               /\ a_pc = "done"
               /\ a_up.byteLength = BodyUnread
               /\ IF a_up.status \in 200..299
                  THEN /\ a_resp.status = 200
                       /\ a_resp.kind = "empty"
                       /\ a_resp.byteLength = 0
                       /\ a_headers.contentType =
                              (IF a_up.contentType \in {Missing, ""} THEN "image/png"
                               ELSE a_up.contentType)
                  ELSE /\ a_resp.status = a_up.status
                       /\ a_resp.kind = "json"
                       /\ FailureKind(a_resp) = "status"

C21_Witness ==
    /\ a_pc = "done" /\ a_req.method = "HEAD" /\ a_path = "head"
    /\ a_req.imagePath = <<"/", "?", "a">>
    /\ a_up # Null /\ a_up.contentType = "image/jpeg"
    /\ a_resp.kind = "empty"

\* ------------------------------------------------- relay and consumer claims
\* The bytes the relay has written, and what the consumer makes of them.
RelayWire == Flatten([i \in 1..Len(r_out) |-> Encode(r_out[i].payload)])
ClientView == ConsumeChunk(FreshState, RelayWire, 1)

\* The frames in the bytes read so far.
ReadFrames == PayloadsOf(ForwardChunk(Flatten(r_read)))
IsMalformed(payload) == FrameKind(payload) = "malformed"

\* The payloads up to and including the first error frame.
RECURSIVE UpToFirstError(_)
UpToFirstError(payloads) ==
    IF payloads = <<>> THEN <<>>
    ELSE IF FrameKind(Head(payloads)) = "error" THEN <<Head(payloads)>>
    ELSE <<Head(payloads)>> \o UpToFirstError(Tail(payloads))

\* The texts of the chunk frames among payloads.
RECURSIVE ChunkTexts(_)
ChunkTexts(payloads) ==
    IF payloads = <<>> THEN <<>>
    ELSE (IF FrameKind(Head(payloads)) = "data" THEN <<Tail(Head(payloads))>> ELSE <<>>)
         \o ChunkTexts(Tail(payloads))

C23_FrameShapes ==
    \A i \in 1..Len(r_out) :
        /\ FrameKind(r_out[i].payload) \in {"data", "finished", "error"}
        /\ (FrameKind(r_out[i].payload) = "finished" => Len(r_out[i].payload) >= 2)

\* The lines of a chunk by position: a line starts at s and runs to the next
\* line feed; the blocks the claim expects for the lines from s on.
LineEnd(chunk, s) ==
    IF \E j \in s..Len(chunk) : chunk[j] = NL
    THEN CHOOSE j \in s..Len(chunk) :
             chunk[j] = NL /\ \A h \in s..(j - 1) : chunk[h] # NL
    ELSE Len(chunk) + 1

RECURSIVE ExpectedBlocksFrom(_, _)
ExpectedBlocksFrom(chunk, s) ==
    IF s > Len(chunk) THEN <<>>
    ELSE LET e == LineEnd(chunk, s)
             line == [i \in 1..(e - s) |-> chunk[s + i - 1]]
             nonBlank == \E i \in 1..Len(line) : line[i] # SP
             prefixed == /\ Len(line) >= 6
                         /\ \A i \in 1..6 : line[i] = DataPrefix[i]
         IN  (IF nonBlank /\ prefixed
              THEN <<[origin |-> "upstream",
                      payload |-> [i \in 1..(Len(line) - 6) |-> line[i + 6]]]>>
              ELSE <<>>) \o ExpectedBlocksFrom(chunk, e + 1)

ExpectedBlocks(chunk) == ExpectedBlocksFrom(chunk, 1)

\* C24: for each chunk read the relay writes one block per non-blank line
\* that begins with 'data: ', in line order, with the payload as it stood
\* in the line; other lines give no output, no block holds the payloads of
\* two lines, and the blocks of a chunk are out before the next read.
C24_LineForwarding ==
    /\ Forwarded = Flatten([i \in 1..Len(r_read) |-> ExpectedBlocks(r_read[i])])
    /\ \A i \in 1..Len(Forwarded) :
           \A j \in 1..Len(Forwarded[i].payload) : Forwarded[i].payload[j] # NL
    /\ (r_pc = "read" => r_out = Forwarded /\ r_reads = Len(r_read))

C24_Witness ==
    /\ r_pc = "read" /\ Len(r_read) = 1
    /\ r_read[1] = CommentBlock \o Encode(<<"C", "a">>)
    /\ r_out = <<Block("upstream", <<"C", "a">>)>>

IsTerminalFrame(payload) == FrameKind(payload) \in {"error", "finished"}

\* C26: in one relay session the client stream never holds both an error
\* frame and a finished frame, and nothing follows the first terminal
\* frame, whatever the upstream sends, frames with an error or finished
\* payload of its own included.
C26_OneTerminalFrame ==
    /\ ~(CountKind(r_out, "error") >= 1 /\ CountKind(r_out, "finished") >= 1)
    /\ \A i \in 1..(Len(r_out) - 1) : ~IsTerminalFrame(r_out[i].payload)

\* ------------------------------------------ StreamingContentGenerator claims
Consumed(k) == SubSeq(c_loops[k].stream, 1, c_loops[k].taken)
\* What one read of all the bytes consumed so far leads to.
OneRead(k) == ConsumeChunk(FreshState, Consumed(k), k)
CountTerminators(text) ==
    Cardinality({i \in 1..(Len(text) - 1) : text[i] = NL /\ text[i + 1] = NL})

\* C25: however the bytes of complete blocks are split into reads, the
\* consumer processes the messages, in the order, that it processes when
\* all the bytes arrive in one read; a trailing fragment without its blank
\* line stays in the buffer and is not processed.
C25_SplitIndependence ==
    \A k \in Sessions :
        c_loops[k].pc \in {"read", "exited"} =>
            /\ c_loops[k].log = OneRead(k).log
            /\ c_content = OneRead(k).content
            /\ c_loops[k].buffer = OneRead(k).buffer
            /\ Len(c_loops[k].log) <= CountTerminators(Consumed(k))

Reading(k) == c_loops[k].pc \in {"fetch", "read"}

\* C29: at most one reading loop works on the displayed content at a time:
\* no request starts while an earlier request's loop is still reading, and
\* the content holds chunks of the latest request only.
C29_OneLoopAtATime ==
    /\ Cardinality({k \in Sessions : Reading(k)}) <= 1
    /\ \A i \in 1..Len(c_content) : c_content[i].session = c_n

\* C30: once the response stream has reached its end, loading and streaming
\* are false, whatever blocks were received: also when no finished or error
\* frame came, or the last block lacks its blank line.
C30_EndOfStreamResets ==
    \A k \in Sessions :
        (c_loops[k].pc = "exited" /\ c_loops[k].exit = "done") =>
            (~c_loading /\ ~c_streaming)

====
